---- MODULE Spec2Model ----
(***************************************************************************)
(* Model of the Cosapi voice-report service: the reports table of core.py  *)
(* (init_db, create_report, update_transcript, list_reports, get_report,   *)
(* list_reports_by_date), the Deepgram client (deepgram_transcribe) and    *)
(* the HTTP handlers of app.py that drive them.                            *)
(***************************************************************************)
EXTENDS Integers, Sequences, FiniteSets, TLC

VARIABLES
    clock,      \* the UTC wall clock, in ticks
    db,         \* the sqlite file: [exists, cols, rows]
    pc,         \* per request handler: its position in the handler's code
    loc,        \* per request handler: the locals of the running request
    resp,       \* the HTTP response sent by the last step, if it sent one
    call,       \* the last transcription call: [env, resp, result]
    out,        \* the last listing query: [op, arg, items]
    migFrom,    \* the store as it was before the first init_db
    migCalls    \* how many init_db calls ran on it

vars == <<clock, db, pc, loc, resp, call, out, migFrom, migCalls>>

----------------------------------------------------------------------------
(* Bounds *)

MaxClock    == 2    \* last tick of the clock
TicksPerDay == 2    \* ticks per UTC day
MaxTextLen  == 2    \* longest text
MaxLimit    == 3    \* largest limit asked of list_reports
MaxCalls    == 2    \* init_db calls in a row

SNIPPET_LEN == 140

Times == 0..MaxClock

----------------------------------------------------------------------------
(* Values: SQL NULL / Python None, text, dates, digests *)

NULL == [t |-> "null"]

Text(s) == [t |-> "text", v |-> s]

Date(d) == [t |-> "date", v |-> d]

WS == " "
Alphabet == {"a", WS}

\* all character sequences of length at most n
RECURSIVE SeqsUpTo(_)
SeqsUpTo(n) ==
    IF n = 0 THEN {<<>>}
    ELSE LET S == SeqsUpTo(n - 1)
         IN  S \cup {Append(s, c) : s \in {x \in S : Len(x) = n - 1}, c \in Alphabet}

RawTexts == SeqsUpTo(MaxTextLen)

\* str.strip(): drop leading and trailing whitespace
RECURSIVE lstrip(_)
lstrip(s) == IF s # <<>> /\ Head(s) = WS THEN lstrip(Tail(s)) ELSE s

RECURSIVE rstrip(_)
rstrip(s) ==
    IF s # <<>> /\ s[Len(s)] = WS THEN rstrip(SubSeq(s, 1, Len(s) - 1)) ELSE s

strip(s) == rstrip(lstrip(s))

\* hashlib.sha256(bytes).hexdigest(): an injective digest of the bytes
Digest(bytes) == [t |-> "sha256", of |-> bytes]

\* sha256_text: (text or "").encode("utf-8") hashed
sha256_text(text) ==
    Digest(IF text = NULL THEN <<>> ELSE text.v)

\* sha256_file: the digest of the file's content
sha256_file(content) == Digest(<<"file", content>>)

\* now_iso(): the clock reading as an ISO timestamp (ordered as the clock is)
now_iso(c) == c

\* the calendar date of an instant
DateOf(ts) == ts \div TicksPerDay

\* iso_date_utc(): the UTC date of the clock reading
iso_date_utc(c) == Date(DateOf(c))

----------------------------------------------------------------------------
(* The reports table *)

KeyCols == <<"report_id", "created_at">>

\* the columns init_db adds to an older table, in the order it adds them
MigCols == <<"created_date", "user_email", "project_id", "audio_path",
             "audio_sha256", "transcript_text", "transcript_sha256",
             "photo_url", "photo_sha256">>

\* the columns of CREATE TABLE reports
AllCols == <<"report_id", "created_at", "created_date", "user_email",
             "project_id", "audio_path", "audio_sha256", "transcript_text",
             "transcript_sha256", "photo_url", "photo_sha256">>

Range(s) == {s[i] : i \in DOMAIN s}

NoDb == [exists |-> FALSE, cols |-> <<>>, rows |-> {}]

\* ALTER TABLE reports ADD COLUMN name: existing rows read NULL in it
AddColumn(d, name) ==
    [d EXCEPT !.cols = Append(@, name),
              !.rows = {[c \in DOMAIN r \cup {name} |->
                            IF c = name THEN NULL ELSE r[c]] : r \in @}]

\* ensure_col without the test of the existing columns
ensure_col_Always(d, existing, name) == AddColumn(d, name)

\* ensure_col, given the column names PRAGMA table_info returned
ensure_col(d, existing, name) ==
    IF name \notin existing THEN AddColumn(d, name) ELSE d

RECURSIVE EnsureFrom(_, _, _)
EnsureFrom(d, existing, i) ==
    IF i > Len(MigCols) THEN d
    ELSE EnsureFrom(ensure_col(d, existing, MigCols[i]), existing, i + 1)

\* CREATE TABLE IF NOT EXISTS reports (...)
CreateTableIfNotExists(d) ==
    IF d.exists THEN d ELSE [exists |-> TRUE, cols |-> AllCols, rows |-> {}]

init_db(d) ==
    LET d1 == CreateTableIfNotExists(d)
    IN  EnsureFrom(d1, Range(d1.cols), 1)

RowIds(d) == {r.report_id : r \in d.rows}

\* INSERT INTO reports (...) VALUES (...); the primary key rejects a duplicate
CanInsert(d, row) ==
    /\ Range(AllCols) \subseteq Range(d.cols)
    /\ row.report_id \notin RowIds(d)

Insert(d, row) == [d EXCEPT !.rows = @ \cup {row}]

\* the UPDATE with transcript_sha256 left out of the SET list
UpdateTranscriptRow_StaleHash(d, report_id, new_text, updated_hash) ==
    [d EXCEPT !.rows =
        {IF r.report_id = report_id
         THEN [r EXCEPT !.transcript_text = new_text]
         ELSE r : r \in @}]

\* the UPDATE with its WHERE clause left out
UpdateTranscriptRow_NoWhere(d, report_id, new_text, updated_hash) ==
    [d EXCEPT !.rows =
        {[r EXCEPT !.transcript_text = new_text,
                   !.transcript_sha256 = updated_hash] : r \in @}]

\* UPDATE reports SET transcript_text=?, transcript_sha256=? WHERE report_id=?
UpdateTranscriptRow(d, report_id, new_text, updated_hash) ==
    [d EXCEPT !.rows =
        {IF r.report_id = report_id
         THEN [r EXCEPT !.transcript_text = new_text,
                        !.transcript_sha256 = updated_hash]
         ELSE r : r \in @}]

update_transcript(d, report_id, new_text) ==
    LET d1 == init_db(d)
        updated_hash == sha256_text(new_text)
    IN  UpdateTranscriptRow(d1, report_id, new_text, updated_hash)

\* get_report with its WHERE clause left out
get_report_AnyRow(d, report_id) == init_db(d).rows

\* get_report: SELECT * FROM reports WHERE report_id=?  (the set is empty or one row)
get_report(d, report_id) == {r \in init_db(d).rows : r.report_id = report_id}

----------------------------------------------------------------------------
(* The transcription client *)

\* JSON values of the provider's payload
JNull == [k |-> "null"]

JStr(s) == [k |-> "str", v |-> s]

JList(items) == [k |-> "list", items |-> items]

JObj(fields) == [k |-> "obj", f |-> fields]

EmptyObj == JObj([x \in {} |-> JNull])

\* the outcome of a Python expression: a value or a raised exception
Ok(v) == [ok |-> TRUE, val |-> v, err |-> "none"]

Raise(e) == [ok |-> FALSE, val |-> JNull, err |-> e]

\* o.get(key, default): the default only when the key is missing
PyGet(o, key, default) ==
    IF o.k # "obj" THEN Raise("AttributeError")
    ELSE IF key \in DOMAIN o.f THEN Ok(o.f[key]) ELSE Ok(default)

\* v[0]
PyIndex0(v) ==
    IF v.k = "list"
    THEN IF Len(v.items) > 0 THEN Ok(v.items[1]) ELSE Raise("IndexError")
    ELSE IF v.k = "obj" THEN Raise("KeyError") ELSE Raise("TypeError")

\* (transcript or "").strip()
PyOrEmptyStrip(v) ==
    IF v.k = "null" THEN Ok(JStr(<<>>))
    ELSE IF v.k = "str" THEN Ok(JStr(strip(v.v)))
    ELSE IF v.k = "list" /\ Len(v.items) = 0 THEN Ok(JStr(<<>>))
    ELSE IF v.k = "obj" /\ DOMAIN v.f = {} THEN Ok(JStr(<<>>))
    ELSE Raise("AttributeError")

\* data.get("results", {}).get("channels", [{}])[0]
\*     .get("alternatives", [{}])[0].get("transcript", "")
ExtractTranscript(data) ==
    LET r1 == PyGet(data, "results", EmptyObj)
        r2 == IF r1.ok THEN PyGet(r1.val, "channels", JList(<<EmptyObj>>)) ELSE r1
        r3 == IF r2.ok THEN PyIndex0(r2.val) ELSE r2
        r4 == IF r3.ok THEN PyGet(r3.val, "alternatives", JList(<<EmptyObj>>)) ELSE r3
        r5 == IF r4.ok THEN PyIndex0(r4.val) ELSE r4
        r6 == IF r5.ok THEN PyGet(r5.val, "transcript", JStr(<<>>)) ELSE r5
    IN  IF r6.ok THEN PyOrEmptyStrip(r6.val) ELSE r6

\* deepgram_transcribe without the test of the status code
deepgram_transcribe_NoStatusCheck(env, rsp) ==
    IF ~env.api_key THEN Raise("RuntimeError")
    ELSE IF rsp.kind = "conn_error" THEN Raise("RequestException")
    ELSE IF rsp.body.k = "invalid" THEN Raise("JSONDecodeError")
    ELSE ExtractTranscript(rsp.body)

\* env: whether DEEPGRAM_API_KEY is set; rsp: what requests.post would give
deepgram_transcribe(env, rsp) ==
    IF ~env.api_key THEN Raise("RuntimeError")
    ELSE IF rsp.kind = "conn_error" THEN Raise("RequestException")
    ELSE IF rsp.status_code # 200 THEN Raise("RuntimeError")
    ELSE IF rsp.body.k = "invalid" THEN Raise("JSONDecodeError")
    ELSE ExtractTranscript(rsp.body)

\* the provider's payloads
JInvalid == [k |-> "invalid"]

\* a second alternative and a second channel, which the client must not read
OtherAlt == JObj([transcript |-> JStr(<<"z">>)])

OtherChannel == JObj([alternatives |-> JList(<<OtherAlt>>)])

\* the lists holding x: alone, or followed by a second element
ListsOf(x, other, more) ==
    {JList(<<x>>)} \cup (IF more THEN {JList(<<x, other>>)} ELSE {})

Nulls(nulls) == IF nulls THEN {JNull} ELSE {}

TranscriptVals(texts) == {JNull} \cup {JStr(t) : t \in texts}

AltObjs(texts) ==
    {EmptyObj} \cup {JObj([transcript |-> v]) : v \in TranscriptVals(texts)}

AlternativesVals(texts, nulls, more) ==
    Nulls(nulls) \cup {JList(<<>>)}
    \cup UNION {ListsOf(a, OtherAlt, more) : a \in AltObjs(texts)}

ChannelObjs(texts, nulls, more) ==
    {EmptyObj}
    \cup {JObj([alternatives |-> v]) : v \in AlternativesVals(texts, nulls, more)}

ChannelsVals(texts, nulls, more) ==
    Nulls(nulls) \cup {JList(<<>>)}
    \cup UNION {ListsOf(c, OtherChannel, more) : c \in ChannelObjs(texts, nulls, more)}

ResultsVals(texts, nulls, more) ==
    Nulls(nulls) \cup {EmptyObj}
    \cup {JObj([channels |-> v]) : v \in ChannelsVals(texts, nulls, more)}

\* the JSON objects a 200 response may carry
JsonBodies(texts, nulls, more) ==
    {EmptyObj} \cup {JObj([results |-> v]) : v \in ResultsVals(texts, nulls, more)}

Bodies(texts, more) == {JInvalid} \cup JsonBodies(texts, TRUE, more)

HTTP_OK == 200
HTTP_BAD_REQUEST == 400
HTTP_NOT_FOUND == 404

\* the provider's non-success statuses
ErrorStatuses == {500}

Responses(texts, more) ==
    {[kind |-> "conn_error", status_code |-> 0, body |-> JInvalid]}
    \cup {[kind |-> "http", status_code |-> st, body |-> b] :
            st \in {HTTP_OK} \cup ErrorStatuses, b \in Bodies(texts, more)}

Envs == {[api_key |-> TRUE], [api_key |-> FALSE]}

----------------------------------------------------------------------------
(* The request handlers *)

\* the handlers in flight: one upload and one transcript edit
Creators == {"c1"}
Editors == {"e1"}
Workers == Creators \cup Editors
Ids == {"r1", "r2"}

NoFile == "none"
AudioBlobs == {"audio1"}
PhotoBlobs == {"photo1"}
FileNames == {"n1"}
Metas == {[user_email |-> NULL, project_id |-> Text(<<"p">>)]}
SpokenTexts == {<<>>, <<"a", WS>>}
EditTexts == {<<>>, <<"b">>}

NoLoc == [op |-> "none"]
NoResp == [op |-> "none"]

\* the provider call cannot succeed: no credential, no connection, a status
\* other than 200, or a body that is not JSON
CallFails(env, rsp) ==
    \/ ~env.api_key
    \/ rsp.kind = "conn_error"
    \/ rsp.status_code # HTTP_OK
    \/ rsp.body.k = "invalid"

\* api_create_report up to the call of create_report, then create_report up to
\* created_at = now_iso()
ApiCreateReportBegin(w) ==
    /\ pc[w] = "idle"
    /\ \E audio \in AudioBlobs, photo \in PhotoBlobs \cup {NoFile},
          audio_name \in FileNames, photo_name \in FileNames,
          meta \in Metas, uuid4 \in Ids :
        /\ db' = init_db(db)
        /\ loc' = [loc EXCEPT ![w] =
                    [op |-> "create",
                     audio |-> audio,
                     audio_path |-> Text(<<"uploads/audio/", audio_name>>),
                     photo |-> photo,
                     photo_url |-> IF photo # NoFile
                                   THEN Text(<<"/uploads/photos/", photo_name>>)
                                   ELSE NULL,
                     photo_disk_path |-> IF photo # NoFile
                                         THEN Text(<<"uploads/photos/", photo_name>>)
                                         ELSE NULL,
                     user_email |-> meta.user_email,
                     project_id |-> meta.project_id,
                     report_id |-> uuid4,
                     created_at |-> now_iso(clock),
                     created_date |-> NULL,
                     audio_hash |-> NULL,
                     call_fails |-> FALSE,
                     transcript |-> NULL]]
    /\ pc' = [pc EXCEPT ![w] = "c_date"]
    /\ resp' = NoResp
    /\ UNCHANGED <<clock, call, out, migFrom, migCalls>>

\* created_date = iso_date_utc(); audio_hash = sha256_file(audio_path)
CreateReportDate(w) ==
    /\ pc[w] = "c_date"
    /\ loc' = [loc EXCEPT ![w].created_date = iso_date_utc(clock),
                          ![w].audio_hash = sha256_file(loc[w].audio)]
    /\ pc' = [pc EXCEPT ![w] = "c_transcribe"]
    /\ resp' = NoResp
    /\ UNCHANGED <<clock, db, call, out, migFrom, migCalls>>

\* raise HTTPException(status_code=..., detail=...)
HTTPException(w, l, status, detail) ==
    [op |-> l.op, w |-> w, req |-> l, status |-> status, detail |-> detail]

\* transcript = deepgram_transcribe(...); an exception leaves create_report and
\* api_create_report turns it into HTTP 400
CreateReportTranscribe(w) ==
    /\ pc[w] = "c_transcribe"
    /\ \E env \in Envs, rsp \in Responses(SpokenTexts, FALSE) :
        LET r == deepgram_transcribe(env, rsp)
            l == [loc[w] EXCEPT !.call_fails = CallFails(env, rsp)]
        IN  IF r.ok
            THEN /\ pc' = [pc EXCEPT ![w] = "c_insert"]
                 /\ loc' = [loc EXCEPT ![w] = [l EXCEPT !.transcript = Text(r.val.v)]]
                 /\ resp' = NoResp
            ELSE /\ pc' = [pc EXCEPT ![w] = "idle"]
                 /\ loc' = [loc EXCEPT ![w] = NoLoc]
                 /\ resp' = HTTPException(w, l, HTTP_BAD_REQUEST, r.err)
    /\ UNCHANGED <<clock, db, call, out, migFrom, migCalls>>

\* the inserted row with a missing photo stored as empty strings
NewRow_EmptyPhoto(l) ==
    [report_id |-> l.report_id,
     created_at |-> l.created_at,
     created_date |-> l.created_date,
     user_email |-> l.user_email,
     project_id |-> l.project_id,
     audio_path |-> l.audio_path,
     audio_sha256 |-> l.audio_hash,
     transcript_text |-> l.transcript,
     transcript_sha256 |-> sha256_text(l.transcript),
     photo_url |-> IF l.photo_url = NULL THEN Text(<<>>) ELSE l.photo_url,
     photo_sha256 |-> IF l.photo_disk_path # NULL
                      THEN sha256_file(l.photo) ELSE NULL]

\* the row create_report inserts
NewRow(l) ==
    LET transcript_hash == sha256_text(l.transcript)
        photo_hash == IF l.photo_disk_path # NULL
                      THEN sha256_file(l.photo) ELSE NULL
    IN  [report_id |-> l.report_id,
         created_at |-> l.created_at,
         created_date |-> l.created_date,
         user_email |-> l.user_email,
         project_id |-> l.project_id,
         audio_path |-> l.audio_path,
         audio_sha256 |-> l.audio_hash,
         transcript_text |-> l.transcript,
         transcript_sha256 |-> transcript_hash,
         photo_url |-> l.photo_url,
         photo_sha256 |-> photo_hash]

\* the dict create_report returns, sent with status 200
ReportResponse(w, l) ==
    [op |-> l.op, w |-> w, req |-> l, status |-> HTTP_OK,
     body |-> [report_id |-> l.report_id,
               created_at |-> l.created_at,
               created_date |-> l.created_date,
               project_id |-> l.project_id,
               user_email |-> l.user_email,
               transcript_text |-> l.transcript,
               photo_url |-> l.photo_url]]

\* the hashes, the INSERT and the return of create_report
CreateReportInsert(w) ==
    /\ pc[w] = "c_insert"
    /\ IF CanInsert(db, NewRow(loc[w]))
       THEN /\ db' = Insert(db, NewRow(loc[w]))
            /\ resp' = ReportResponse(w, loc[w])
       ELSE /\ db' = db
            /\ resp' = HTTPException(w, loc[w], HTTP_BAD_REQUEST, "IntegrityError")
    /\ pc' = [pc EXCEPT ![w] = "idle"]
    /\ loc' = [loc EXCEPT ![w] = NoLoc]
    /\ UNCHANGED <<clock, call, out, migFrom, migCalls>>

\* api_update_transcript: the get_report existence check
ApiUpdateTranscriptCheck(w) ==
    /\ pc[w] = "idle"
    /\ \E report_id \in Ids, transcript_text \in EditTexts :
        LET l == [op |-> "edit", report_id |-> report_id,
                  new_text |-> Text(transcript_text)]
        IN  /\ db' = init_db(db)
            /\ IF get_report(db, report_id) = {}
               THEN /\ pc' = pc
                    /\ loc' = loc
                    /\ resp' = HTTPException(w, l, HTTP_NOT_FOUND,
                                             "Reporte no encontrado")
               ELSE /\ pc' = [pc EXCEPT ![w] = "u_update"]
                    /\ loc' = [loc EXCEPT ![w] = l]
                    /\ resp' = NoResp
    /\ UNCHANGED <<clock, call, out, migFrom, migCalls>>

\* api_update_transcript: return update_transcript(report_id, transcript_text)
ApiUpdateTranscriptSave(w) ==
    /\ pc[w] = "u_update"
    /\ db' = update_transcript(db, loc[w].report_id, loc[w].new_text)
    /\ resp' = [op |-> "edit", w |-> w, req |-> loc[w], status |-> HTTP_OK,
                body |-> [report_id |-> loc[w].report_id, saved |-> TRUE]]
    /\ pc' = [pc EXCEPT ![w] = "idle"]
    /\ loc' = [loc EXCEPT ![w] = NoLoc]
    /\ UNCHANGED <<clock, call, out, migFrom, migCalls>>

\* time passes
Tick ==
    /\ clock < MaxClock
    /\ clock' = clock + 1
    /\ resp' = NoResp
    /\ UNCHANGED <<db, pc, loc, call, out, migFrom, migCalls>>

NoCall == [done |-> FALSE]
NoOut == [op |-> "none"]

Init ==
    /\ clock = 0
    /\ db = NoDb
    /\ pc = [w \in Workers |-> "idle"]
    /\ loc = [w \in Workers |-> NoLoc]
    /\ resp = NoResp
    /\ call = NoCall
    /\ out = NoOut
    /\ migFrom = NoDb
    /\ migCalls = 0

Next ==
    \/ Tick
    \/ \E w \in Creators : ApiCreateReportBegin(w)
    \/ \E w \in Creators : CreateReportDate(w)
    \/ \E w \in Creators : CreateReportTranscribe(w)
    \/ \E w \in Creators : CreateReportInsert(w)
    \/ \E w \in Editors : ApiUpdateTranscriptCheck(w)
    \/ \E w \in Editors : ApiUpdateTranscriptSave(w)

Spec == Init /\ [][Next]_vars

----------------------------------------------------------------------------
(* The transcription client on its own *)

InitTranscribe ==
    /\ clock = 0
    /\ db = NoDb
    /\ pc = [w \in Workers |-> "idle"]
    /\ loc = [w \in Workers |-> NoLoc]
    /\ resp = NoResp
    /\ call \in {[done |-> FALSE, env |-> e, rsp |-> r] :
                    e \in Envs, r \in Responses(RawTexts, TRUE)}
    /\ out = NoOut
    /\ migFrom = NoDb
    /\ migCalls = 0

Transcribe ==
    /\ ~call.done
    /\ call' = [done |-> TRUE, env |-> call.env, rsp |-> call.rsp,
                result |-> deepgram_transcribe(call.env, call.rsp)]
    /\ UNCHANGED <<clock, db, pc, loc, resp, out, migFrom, migCalls>>

SpecTranscribe == InitTranscribe /\ [][Transcribe]_vars

----------------------------------------------------------------------------
(* The listing queries *)

\* every order of the rows of S
Perms(S) ==
    {s \in [1..Cardinality(S) -> S] : \A i, j \in DOMAIN s : s[i] = s[j] => i = j}

\* ORDER BY created_at DESC: rows of equal created_at come in any order
OrderByCreatedAtDesc(S) ==
    {s \in Perms(S) : \A i, j \in DOMAIN s : i < j => s[i].created_at >= s[j].created_at}

\* ORDER BY created_at ASC
OrderByCreatedAtAsc(S) ==
    {s \in Perms(S) : \A i, j \in DOMAIN s : i < j => s[i].created_at <= s[j].created_at}

Min(a, b) == IF a < b THEN a ELSE b

\* LIMIT n: sqlite reads a negative n as no limit at all
SqlLimit(s, n) == IF n < 0 THEN s ELSE SubSeq(s, 1, Min(n, Len(s)))

\* t[:140] + ellipsis if len(t) > 140 else t, t the stripped transcript
Snippet(transcript_text) ==
    LET t == strip(IF transcript_text = NULL THEN <<>> ELSE transcript_text.v)
    IN  IF Len(t) > SNIPPET_LEN
        THEN Text(Append(SubSeq(t, 1, SNIPPET_LEN), "..."))
        ELSE Text(t)

ListItem(r) ==
    [report_id |-> r.report_id,
     created_at |-> r.created_at,
     created_date |-> r.created_date,
     user_email |-> r.user_email,
     project_id |-> r.project_id,
     transcript_text |-> r.transcript_text,
     photo_url |-> r.photo_url,
     transcript_snippet |-> Snippet(r.transcript_text)]

\* the results list_reports(limit) may return
list_reports(d, limit) ==
    {[i \in DOMAIN s |-> ListItem(s[i])] :
        s \in {SqlLimit(o, limit) : o \in OrderByCreatedAtDesc(init_db(d).rows)}}

DateItem(r) ==
    [report_id |-> r.report_id,
     created_at |-> r.created_at,
     user_email |-> r.user_email,
     project_id |-> r.project_id,
     transcript_text |-> r.transcript_text,
     photo_url |-> r.photo_url]

\* the filter taken on the date of created_at, not on the created_date column
WhereCreatedDate_OfCreatedAt(rows, created_date) ==
    {r \in rows : Date(DateOf(r.created_at)) = created_date}

\* WHERE created_date = ?
WhereCreatedDate(rows, created_date) == {r \in rows : r.created_date = created_date}

\* the results list_reports_by_date(created_date) may return
list_reports_by_date(d, created_date) ==
    {[i \in DOMAIN s |-> DateItem(s[i])] :
        s \in OrderByCreatedAtAsc(WhereCreatedDate(init_db(d).rows, created_date))}

QueryIds == {"r1", "r2", "r3"}
MaxDate == (MaxClock \div TicksPerDay) + 1
Dates == {Date(n) : n \in 0..MaxDate}
Limits == (0 - 1)..MaxLimit

\* the rows a store may hold for one report_id
QueryRows(id) ==
    {[report_id |-> id,
      created_at |-> at,
      created_date |-> cd,
      user_email |-> NULL,
      project_id |-> Text(<<"p">>),
      audio_path |-> Text(<<"uploads/audio/", "n1">>),
      audio_sha256 |-> sha256_file("audio1"),
      transcript_text |-> Text(<<"a">>),
      transcript_sha256 |-> sha256_text(Text(<<"a">>)),
      photo_url |-> NULL,
      photo_sha256 |-> NULL] : at \in Times, cd \in {NULL} \cup Dates}

\* no row or one row for an id
OptRow(id) == {{}} \cup {{r} : r \in QueryRows(id)}

\* the stores: the primary key allows one row for an id
QueryStores ==
    {[exists |-> TRUE, cols |-> AllCols, rows |-> r1 \cup r2 \cup r3] :
        r1 \in OptRow("r1"), r2 \in OptRow("r2"), r3 \in OptRow("r3")}

InitQuery ==
    /\ clock = 0
    /\ db \in QueryStores
    /\ pc = [w \in Workers |-> "idle"]
    /\ loc = [w \in Workers |-> NoLoc]
    /\ resp = NoResp
    /\ call = NoCall
    /\ out = NoOut
    /\ migFrom = NoDb
    /\ migCalls = 0

\* api_list_reports: GET /api/reports?limit=n
ApiListReports ==
    /\ \E limit \in Limits :
        \E items \in list_reports(db, limit) :
            out' = [op |-> "list_reports", limit |-> limit, items |-> items]
    /\ db' = init_db(db)
    /\ UNCHANGED <<clock, pc, loc, resp, call, migFrom, migCalls>>

\* resumen_diario: items = list_reports_by_date(fecha)
ResumenDiario ==
    /\ \E fecha \in Dates :
        \E items \in list_reports_by_date(db, fecha) :
            out' = [op |-> "list_reports_by_date", fecha |-> fecha, items |-> items]
    /\ db' = init_db(db)
    /\ UNCHANGED <<clock, pc, loc, resp, call, migFrom, migCalls>>

NextQuery == ApiListReports \/ ResumenDiario

SpecQuery == InitQuery /\ [][NextQuery]_vars

----------------------------------------------------------------------------
(* Schema migration on its own *)

\* the columns of AllCols that are in S, in the order of AllCols
ColsOf(S) == SelectSeq(AllCols, LAMBDA c : c \in S)

NonEmptyKeySets == SUBSET Range(KeyCols) \ {{}}

\* the schemas of older tables: some key columns and some of the others
LegacySchemas ==
    {ColsOf(K \cup O) : K \in NonEmptyKeySets, O \in SUBSET Range(MigCols)}

\* a legacy row: every column holds a text naming the column and the row, or NULL
LegacyRow(cols, id, filled) ==
    [c \in Range(cols) |->
        IF c = "report_id" THEN id
        ELSE IF c = "created_at" THEN 0
        ELSE IF filled THEN Text(<<c, id>>) ELSE NULL]

LegacyRowSets(cols) ==
    {ra \cup rb :
        ra \in {{}} \cup {{LegacyRow(cols, "r1", b)} : b \in BOOLEAN},
        rb \in {{}} \cup {{LegacyRow(cols, "r2", b)} : b \in BOOLEAN}}

LegacyStores ==
    UNION {{[exists |-> TRUE, cols |-> cols, rows |-> rows] :
                rows \in LegacyRowSets(cols)} : cols \in LegacySchemas}

InitMig ==
    /\ clock = 0
    /\ db \in {NoDb} \cup LegacyStores
    /\ pc = [w \in Workers |-> "idle"]
    /\ loc = [w \in Workers |-> NoLoc]
    /\ resp = NoResp
    /\ call = NoCall
    /\ out = NoOut
    /\ migFrom = db
    /\ migCalls = 0

\* one call of init_db
InitDb ==
    /\ migCalls < MaxCalls
    /\ db' = init_db(db)
    /\ migCalls' = migCalls + 1
    /\ UNCHANGED <<clock, pc, loc, resp, call, out, migFrom>>

SpecMig == InitMig /\ [][InitDb]_vars

----------------------------------------------------------------------------
(* Properties *)

\* C1: every stored report's transcript_sha256 is the digest of that row's
\* current transcript_text, after a creation and after every edit.
C1_TranscriptDigestCurrent ==
    \A r \in db.rows : r.transcript_sha256 = sha256_text(r.transcript_text)

\* an edit to a non-empty text has just been saved on a stored row
C1_Witness ==
    /\ resp.op = "edit"
    /\ resp.status = HTTP_OK
    /\ \E r \in db.rows :
        /\ r.report_id = resp.req.report_id
        /\ r.transcript_text = Text(<<"b">>)
        /\ r.transcript_sha256 = Digest(<<"b">>)

\* C2: for every stored report, created_date is the UTC calendar date of its
\* created_at, whenever create_report runs.
C2_CreatedDateOfCreatedAt ==
    \A r \in db.rows : r.created_date = Date(DateOf(r.created_at))

\* C3: when the transcription call of create_report fails, the request ends
\* with HTTP 400 and the reports table keeps exactly its rows; a failed call
\* never reaches the INSERT.
C3_FailedTranscriptionWritesNothing ==
    /\ [](\A w \in Creators : pc[w] = "c_insert" => ~loc[w].call_fails)
    /\ [][\A w \in Creators :
            (pc[w] = "c_transcribe" /\ pc'[w] \notin {"c_transcribe", "c_insert"})
            => /\ pc'[w] = "idle"
               /\ resp'.op = "create"
               /\ resp'.w = w
               /\ resp'.status = HTTP_BAD_REQUEST
               /\ db'.rows = db.rows]_vars

\* a creation has just failed in the provider call while the table held a row
C3_Witness ==
    /\ resp.op = "create"
    /\ resp.status = HTTP_BAD_REQUEST
    /\ resp.req.call_fails
    /\ resp.detail = "RuntimeError"
    /\ db.rows # {}

\* C4: an edit-transcript request for a report_id that is not stored is
\* answered 404 and changes no row, and update_transcript never runs for an id
\* that is not stored, whatever the other handler does meanwhile.
C4_EditOfMissingIsNotFound ==
    /\ [](\A w \in Editors : pc[w] = "u_update" => loc[w].report_id \in RowIds(db))
    /\ [][(resp'.op = "edit" /\ resp'.req.report_id \notin RowIds(db))
            => /\ resp'.status = HTTP_NOT_FOUND
               /\ db'.rows = db.rows]_vars

\* an edit of a missing id has just been answered 404 while another report is stored
C4_Witness ==
    /\ resp.op = "edit"
    /\ resp.status = HTTP_NOT_FOUND
    /\ resp.req.report_id \notin RowIds(db)
    /\ db.rows # {}

\* C7: a successful create-report call without a photo answers photo_url null
\* and stores photo_url and photo_sha256 null; in every stored row photo_url
\* is null exactly when photo_sha256 is null.
C7_NoPhotoFieldsAbsent ==
    /\ \A r \in db.rows : (r.photo_url = NULL) <=> (r.photo_sha256 = NULL)
    /\ (resp.op = "create" /\ resp.status = HTTP_OK /\ resp.req.photo = NoFile)
        => /\ resp.body.photo_url = NULL
           /\ \E r \in db.rows :
                /\ r.report_id = resp.body.report_id
                /\ r.photo_url = NULL
                /\ r.photo_sha256 = NULL

\* a report without a photo has just been created next to one with a photo
C7_Witness ==
    /\ resp.op = "create"
    /\ resp.status = HTTP_OK
    /\ resp.req.photo = NoFile
    /\ \E r \in db.rows : r.photo_url # NULL /\ r.photo_sha256 # NULL

\* the fields update_transcript must leave alone
FrameCols == {"report_id", "created_at", "created_date", "user_email",
              "project_id", "audio_path", "audio_sha256", "photo_url",
              "photo_sha256"}

\* C10: no step removes a stored report or changes a field other than
\* transcript_text and transcript_sha256; those two change only in the row
\* whose report_id an update_transcript call names, to that call's text.
C10_LifecycleFrame ==
    [][\A r \in db.rows :
        \E r2 \in db'.rows :
            /\ r2.report_id = r.report_id
            /\ \A c \in FrameCols : r2[c] = r[c]
            /\ (r2 # r) =>
                \E w \in Editors :
                    /\ pc[w] = "u_update"
                    /\ pc'[w] = "idle"
                    /\ loc[w].report_id = r.report_id
                    /\ r2.transcript_text = loc[w].new_text]_vars

\* an edit has just changed one of two stored reports
C10_Witness ==
    /\ resp.op = "edit"
    /\ resp.status = HTTP_OK
    /\ Cardinality(db.rows) = 2
    /\ \E r \in db.rows :
        /\ r.report_id = resp.req.report_id
        /\ r.transcript_text = resp.req.new_text
    /\ \E r \in db.rows :
        /\ r.report_id # resp.req.report_id
        /\ r.transcript_text # resp.req.new_text

\* C5: list_reports(n) returns at most n items (no item for a negative n),
\* newest created_at first.
C5_ListReportsAtMostLimit ==
    out.op = "list_reports" =>
        /\ Len(out.items) <= (IF out.limit < 0 THEN 0 ELSE out.limit)
        /\ \A i, j \in DOMAIN out.items :
            i < j => out.items[i].created_at >= out.items[j].created_at

\* C6: list_reports_by_date(d) returns the stored reports whose created_date
\* is d, each once and as stored, none of another date, oldest created_at first.
C6_ListByDateExact ==
    out.op = "list_reports_by_date" =>
        /\ {out.items[i].report_id : i \in DOMAIN out.items}
            = {r.report_id : r \in {x \in db.rows : x.created_date = out.fecha}}
        /\ \A i, j \in DOMAIN out.items :
            out.items[i].report_id = out.items[j].report_id => i = j
        /\ \A i \in DOMAIN out.items :
            \E r \in db.rows :
                /\ r.report_id = out.items[i].report_id
                /\ r.created_at = out.items[i].created_at
                /\ r.transcript_text = out.items[i].transcript_text
        /\ \A i, j \in DOMAIN out.items :
            i < j => out.items[i].created_at <= out.items[j].created_at

\* a summary of two reports of different times was listed while the store
\* also held a report of another date
C6_Witness ==
    /\ out.op = "list_reports_by_date"
    /\ Len(out.items) = 2
    /\ out.items[1].created_at < out.items[2].created_at
    /\ \E r \in db.rows :
        /\ r.created_date # out.fecha
        /\ Date(DateOf(r.created_at)) = out.fecha

\* what the claim expects of a 200 payload: the first alternative of the
\* first channel, trimmed, or the empty string when a field is missing
HasFirstTranscript(body) ==
    /\ "results" \in DOMAIN body.f
    /\ body.f.results.k = "obj"
    /\ "channels" \in DOMAIN body.f.results.f
    /\ body.f.results.f.channels.k = "list"
    /\ Len(body.f.results.f.channels.items) > 0
    /\ "alternatives" \in DOMAIN body.f.results.f.channels.items[1].f
    /\ body.f.results.f.channels.items[1].f.alternatives.k = "list"
    /\ Len(body.f.results.f.channels.items[1].f.alternatives.items) > 0
    /\ "transcript" \in
        DOMAIN body.f.results.f.channels.items[1].f.alternatives.items[1].f
    /\ body.f.results.f.channels.items[1].f.alternatives.items[1].f.transcript.k = "str"

ExpectedTranscript(body) ==
    IF HasFirstTranscript(body)
    THEN strip(body.f.results.f.channels.items[1].f.alternatives.items[1].f.transcript.v)
    ELSE <<>>

\* C8: for a 200 response whose payload misses 'results', misses or has an
\* empty 'channels' or 'alternatives' list, or misses or has a null
\* 'transcript', deepgram_transcribe returns the empty string and does not
\* raise; with the fields present it returns the first alternative of the
\* first channel, trimmed.
C8_MalformedPayloadGivesEmpty ==
    (/\ call.done
     /\ call.env.api_key
     /\ call.rsp.kind = "http"
     /\ call.rsp.status_code = HTTP_OK
     /\ call.rsp.body \in JsonBodies(RawTexts, FALSE, TRUE))
    => /\ call.result.ok
       /\ call.result.val = JStr(ExpectedTranscript(call.rsp.body))

HasAllColumns(d) ==
    /\ d.exists
    /\ Range(AllCols) \subseteq Range(d.cols)
    /\ Len(d.cols) = Cardinality(Range(d.cols))
    /\ \A r \in d.rows : DOMAIN r = Range(d.cols)

\* every row of the old store is in the new one with its values, null in the
\* columns the old table did not have, and there is no other row
RowsKept(old, new) ==
    /\ Cardinality(new.rows) = Cardinality(old.rows)
    /\ \A r0 \in old.rows :
        \E r \in new.rows :
            /\ \A c \in DOMAIN r0 : c \in DOMAIN r /\ r[c] = r0[c]
            /\ \A c \in DOMAIN r \ DOMAIN r0 : r[c] = NULL

HasKeyCols(d) == d.exists => Range(KeyCols) \subseteq Range(d.cols)

====
